---- MODULE Spec2Model ----
(***************************************************************************)
(* keyvy: an in-memory key-value cache with per-key TTL, served to         *)
(* concurrent clients over a line-oriented text protocol (src/main.rs).    *)
(*                                                                         *)
(* Text is modelled as sequences of one-character strings, so that         *)
(* trimming, whitespace splitting, upper-casing, number parsing and        *)
(* String::len are computed rather than assumed.  Instant::now() reads an  *)
(* integer number of clock ticks; a second is TicksPerSec ticks.           *)
(* main never calls periodic_cleanup, so Spec has no sweeper; SpecSweep is  *)
(* the program with the sweeper started.                                   *)
(***************************************************************************)
EXTENDS Integers, Sequences, FiniteSets, TLC

\* ------------------------------------------------------------------ bounds
\* Clock resolution: ticks of the monotonic clock per second.
TicksPerSec == 2
\* The clock stops advancing at MaxNow ticks.
MaxNow == 3
\* ... and at MaxNowLong ticks where one client watches a ten-second ttl.
MaxNowLong == 21

\* ------------------------------------------------------------ Option<T>
None == <<>>
Some(x) == <<x>>
is_some(o) == Len(o) = 1
unwrap(o) == o[1]

\* ------------------------------------------------------------------ text
Lower == <<"a","b","c","d","e","f","g","h","i","j","k","l","m",
           "n","o","p","q","r","s","t","u","v","w","x","y","z">>
Upper == <<"A","B","C","D","E","F","G","H","I","J","K","L","M",
           "N","O","P","Q","R","S","T","U","V","W","X","Y","Z">>
Digits == <<"0","1","2","3","4","5","6","7","8","9">>
Whitespace == {" ", "\t", "\n", "\r"}

IndexIn(c, alphabet) ==
    IF \E n \in 1..Len(alphabet) : alphabet[n] = c
    THEN CHOOSE n \in 1..Len(alphabet) : alphabet[n] = c
    ELSE 0

\* str::to_uppercase, character by character
to_uppercase(s) ==
    [n \in 1..Len(s) |->
        IF IndexIn(s[n], Lower) > 0 THEN Upper[IndexIn(s[n], Lower)] ELSE s[n]]

\* str::trim: drop leading and trailing whitespace
RECURSIVE trim_start(_)
trim_start(s) ==
    IF s # <<>> /\ Head(s) \in Whitespace THEN trim_start(Tail(s)) ELSE s
RECURSIVE trim_end(_)
trim_end(s) ==
    IF s # <<>> /\ s[Len(s)] \in Whitespace
    THEN trim_end(SubSeq(s, 1, Len(s) - 1)) ELSE s
trim(s) == trim_end(trim_start(s))

\* str::split_whitespace().collect(): the maximal whitespace-free runs
RECURSIVE split_from(_, _, _)
split_from(s, cur, acc) ==
    IF s = <<>> THEN (IF cur = <<>> THEN acc ELSE Append(acc, cur))
    ELSE IF Head(s) \in Whitespace
         THEN split_from(Tail(s), <<>>, IF cur = <<>> THEN acc ELSE Append(acc, cur))
         ELSE split_from(Tail(s), Append(cur, Head(s)), acc)
split_whitespace(s) == split_from(s, <<>>, <<>>)

\* Decimal numerals are compared as text, since the largest u64 is more than
\* an integer of the model checker holds: without leading zeros, the longer
\* numeral is the larger, and of two of one length the one with the larger
\* digit at the first difference.
RECURSIVE strip_zeros(_)
strip_zeros(s) ==
    IF Len(s) > 1 /\ Head(s) = "0" THEN strip_zeros(Tail(s)) ELSE s
RECURSIVE digits_le(_, _)
digits_le(a, b) ==
    IF a = <<>> THEN TRUE
    ELSE IF Head(a) = Head(b) THEN digits_le(Tail(a), Tail(b))
    ELSE IndexIn(Head(a), Digits) < IndexIn(Head(b), Digits)
numeral_le(a, b) ==
    LET x == strip_zeros(a)
        y == strip_zeros(b)
    IN  Len(x) < Len(y) \/ (Len(x) = Len(y) /\ digits_le(x, y))

\* u64::MAX and i64::MAX, in decimal
U64_MAX == <<"1","8","4","4","6","7","4","4","0","7",
             "3","7","0","9","5","5","1","6","1","5">>
I64_MAX == <<"9","2","2","3","3","7","2","0","3","6",
             "8","5","4","7","7","5","8","0","7">>
\* The one value that stands for every u64 above i64::MAX: more seconds
\* than an Instant holds, whatever the clock reads
TooLong == -1

\* The number a numeral denotes
RECURSIVE digits_value(_, _)
digits_value(s, acc) ==
    IF s = <<>> THEN Some(acc)
    ELSE digits_value(Tail(s), acc * 10 + (IndexIn(Head(s), Digits) - 1))

\* A parse that takes a '-' for a '+'
parse_u64_signed(s) ==
    LET body == IF s # <<>> /\ Head(s) \in {"+", "-"} THEN Tail(s) ELSE s
    IN  IF body = <<>> \/ \E n \in 1..Len(body) : IndexIn(body[n], Digits) = 0
        THEN None
        ELSE IF ~numeral_le(body, U64_MAX) THEN None
        ELSE IF ~numeral_le(body, I64_MAX) THEN Some(TooLong)
        ELSE digits_value(strip_zeros(body), 0)

\* str::parse::<u64>: an optional '+', then one or more decimal digits, the
\* number being at most u64::MAX; anything else (empty, a sign alone, '-',
\* a letter, a larger number) is an error (None).
parse_u64(s) ==
    LET body == IF s # <<>> /\ Head(s) = "+" THEN Tail(s) ELSE s
    IN  IF body = <<>> \/ \E n \in 1..Len(body) : IndexIn(body[n], Digits) = 0
        THEN None
        ELSE IF ~numeral_le(body, U64_MAX) THEN None
        ELSE IF ~numeral_le(body, I64_MAX) THEN Some(TooLong)
        ELSE digits_value(strip_zeros(body), 0)
unwrap_or(o, d) == IF is_some(o) THEN unwrap(o) ELSE d

\* ---------------------------------------------------------------- tokens
PASSWORD == <<"p","a","s","s","w","o","r","d">>
AUTH == <<"A","U","T","H">>
PING == <<"P","I","N","G">>
GET  == <<"G","E","T">>
TTL  == <<"T","T","L">>
SET  == <<"S","E","T">>
DEL  == <<"D","E","L">>
QUIT == <<"Q","U","I","T">>

\* ------------------------------------------------------------- responses
\* A response line is kept as the format string of the writeln! that wrote
\* it together with the values substituted for its {} holes.
Reply(fmt, num, arg) == [fmt |-> fmt, num |-> num, arg |-> arg]
NoReply       == Reply("", 0, <<>>)
ReplyOk       == Reply("+OK", 0, <<>>)
\* A PING that is refused like a gated command
ReplyPong_gated == Reply("-NOAUTH Authentication required.", 0, <<>>)
ReplyPong     == Reply("+PONG", 0, <<>>)
ReplyNoAuth   == Reply("-NOAUTH Authentication required.", 0, <<>>)
ReplyBadPass  == Reply("-ERR invalid password", 0, <<>>)
ReplyNil      == Reply("$-1", 0, <<>>)
ReplyMinusOne == Reply("-1", 0, <<>>)
ReplyEmptyCmd == Reply("-ERR empty command", 0, <<>>)
ReplyBulk(v)     == Reply("${}\r\n{}", Len(v), v)
ReplySeconds(n)  == Reply("{}", n, <<>>)
ReplyCount(n)    == Reply(":{}", n, <<>>)
ReplyWrongArgs(c) == Reply("-ERR wrong number of arguments for '{}'", 0, c)
ReplyUnknown(c)   == Reply("-ERR: unknown command '{}'", 0, c)

\* ------------------------------------------------------------ CacheEntry
CacheEntry(expires_at, value) == [expires_at |-> expires_at, value |-> value]

\* Duration::from_secs
from_secs(n) == n * TicksPerSec
\* Duration::as_secs: whole seconds, rounded down
as_secs(d) == d \div TicksPerSec

\* Instant + Duration::from_secs(ttl_seconds): the later instant, or None
\* when it is more than an Instant holds ("overflow when adding duration to
\* instant", a panic).  An Instant counts seconds in an i64 at most.
instant_add(t, ttl_seconds) ==
    IF ttl_seconds = TooLong THEN None ELSE Some(t + from_secs(ttl_seconds))

\* An entry whose ttl is taken in clock ticks instead of seconds
CacheEntry_new_ticks(ttl_seconds, value, t) ==
    Some(CacheEntry(IF ttl_seconds = 0 THEN None ELSE Some(t + ttl_seconds), value))

\* CacheEntry::new, with the clock reading `t` it takes: the entry, or None
\* when computing expires_at panics
CacheEntry_new(ttl_seconds, value, t) ==
    IF ttl_seconds = 0 THEN Some(CacheEntry(None, value))
    ELSE IF is_some(instant_add(t, ttl_seconds))
         THEN Some(CacheEntry(instant_add(t, ttl_seconds), value))
         ELSE None

\* An entry built from the wrong token: the one before the value
new_from_request_shifted(parts, t) ==
    IF Len(parts) = 4
    THEN CacheEntry_new(unwrap_or(parse_u64(parts[3]), 0), parts[3], t)
    ELSE IF Len(parts) >= 3
         THEN CacheEntry_new(0, parts[2], t)
         ELSE None

\* CacheEntry::new_from_request.  parts is 1-indexed here: parts[1] is the
\* command.  The result is None when it panics: an index out of bounds, or
\* the panic of CacheEntry::new.
new_from_request(parts, t) ==
    IF Len(parts) = 4
    THEN CacheEntry_new(unwrap_or(parse_u64(parts[3]), 0), parts[4], t)
    ELSE IF Len(parts) >= 3
         THEN CacheEntry_new(0, parts[3], t)
         ELSE None

\* key_from_request: parts[1] of the source; None when it is out of bounds
key_from_request(parts) == IF Len(parts) >= 2 THEN Some(parts[2]) ELSE None

\* keys_from_request: every token after the command
keys_from_request(parts) == SubSeq(parts, 2, Len(parts))

\* ------------------------------------------------------------- the store
\* HashMap<String, CacheEntry>: a function whose domain is the present keys
contains_key(store, key) == key \in DOMAIN store
insert(store, key, entry) ==
    [k \in DOMAIN store \cup {key} |-> IF k = key THEN entry ELSE store[k]]
remove(store, key) == [k \in DOMAIN store \ {key} |-> store[k]]

\* A liveness test that is off by one instant: expired only after expires_at
get_by_key_late(store, key, t) ==
    IF contains_key(store, key)
    THEN IF is_some(store[key].expires_at) /\ t > unwrap(store[key].expires_at)
         THEN None
         ELSE Some(store[key])
    ELSE None

\* get_by_key, with the clock reading `t` it takes: the live entry or None
get_by_key(store, key, t) ==
    IF contains_key(store, key)
    THEN IF is_some(store[key].expires_at) /\ t >= unwrap(store[key].expires_at)
         THEN None
         ELSE Some(store[key])
    ELSE None

\* handle_get: the reply, or None when key_from_request panics
handle_get(parts, store, t) ==
    IF ~is_some(key_from_request(parts)) THEN None
    ELSE LET found == get_by_key(store, unwrap(key_from_request(parts)), t)
         IN  Some(IF is_some(found) THEN ReplyBulk(unwrap(found).value) ELSE ReplyNil)

\* A DEL that leaves every entry that carries an expiry to the sweeper
RECURSIVE del_loop_unexpiring(_, _, _)
del_loop_unexpiring(keys, store, deleted) ==
    IF keys = <<>> THEN [store |-> store, deleted |-> deleted]
    ELSE IF contains_key(store, Head(keys)) /\ ~is_some(store[Head(keys)].expires_at)
         THEN del_loop_unexpiring(Tail(keys), remove(store, Head(keys)), deleted + 1)
         ELSE del_loop_unexpiring(Tail(keys), store, deleted)

\* handle_del: the loop over the keys; the store and the count after it
RECURSIVE del_loop(_, _, _)
del_loop(keys, store, deleted) ==
    IF keys = <<>> THEN [store |-> store, deleted |-> deleted]
    ELSE del_loop(Tail(keys), remove(store, Head(keys)),
                  IF contains_key(store, Head(keys)) THEN deleted + 1 ELSE deleted)

\* A DEL that counts every listed key found before the loop began
handle_del_stale(parts, store) ==
    [store |-> del_loop(keys_from_request(parts), store, 0).store,
     deleted |-> Cardinality({n \in 2..Len(parts) : contains_key(store, parts[n])})]

handle_del(parts, store) == del_loop(keys_from_request(parts), store, 0)

\* Expiration.checked_duration_since(t): None when t is later
checked_duration_since(expiration, t) ==
    IF t > expiration THEN None ELSE Some(expiration - t)

\* A TTL that looks the entry up without the liveness test of get_by_key
handle_ttl_unchecked(parts, store, t1, t2) ==
    IF ~is_some(key_from_request(parts)) THEN None
    ELSE IF contains_key(store, unwrap(key_from_request(parts)))
         THEN LET entry == store[unwrap(key_from_request(parts))]
              IN  IF is_some(entry.expires_at)
                  THEN LET left == checked_duration_since(unwrap(entry.expires_at), t2)
                       IN  IF is_some(left)
                           THEN Some(ReplySeconds(as_secs(unwrap(left))))
                           ELSE None
                  ELSE Some(ReplyMinusOne)
         ELSE Some(ReplyMinusOne)

\* handle_ttl, with its two clock readings: t1 inside get_by_key, t2 in
\* checked_duration_since.  The reply, or None when it panics.
handle_ttl(parts, store, t1, t2) ==
    IF ~is_some(key_from_request(parts)) THEN None
    ELSE LET found == get_by_key(store, unwrap(key_from_request(parts)), t1)
         IN  IF is_some(found)
             THEN IF is_some(unwrap(found).expires_at)
                  THEN LET left == checked_duration_since(
                                       unwrap(unwrap(found).expires_at), t2)
                       IN  IF is_some(left)
                           THEN Some(ReplySeconds(as_secs(unwrap(left))))
                           ELSE None
                  ELSE Some(ReplyMinusOne)
             ELSE Some(ReplyMinusOne)

\* A SET that updates the value of an entry in place, keeping its expiry
handle_set_inherit(parts, store, t) ==
    IF is_some(key_from_request(parts)) /\ is_some(new_from_request(parts, t))
    THEN LET key == unwrap(key_from_request(parts))
             entry == unwrap(new_from_request(parts, t))
         IN  Some(insert(store, key,
                         IF contains_key(store, key)
                         THEN CacheEntry(store[key].expires_at, entry.value)
                         ELSE entry))
    ELSE None

\* handle_set: the store after the insert, or None when building the key
\* or the entry panics
handle_set(parts, store, t) ==
    IF is_some(key_from_request(parts)) /\ is_some(new_from_request(parts, t))
    THEN Some(insert(store, unwrap(key_from_request(parts)),
                     unwrap(new_from_request(parts, t))))
    ELSE None

\* A sweep that drops every entry that carries an expiry, due or not
retain_unexpiring(store, t) ==
    [k \in {j \in DOMAIN store : ~is_some(store[j].expires_at)} |-> store[k]]

\* map.retain(..) of periodic_cleanup, with the clock reading `t`: an entry
\* stays when it has no expiry or the clock is before it
retain(store, t) ==
    [k \in {j \in DOMAIN store :
                IF is_some(store[j].expires_at)
                THEN t < unwrap(store[j].expires_at)
                ELSE TRUE} |-> store[k]]

\* --------------------------------------------------------- gate and arity
\* A gate that lets every session through
check_authenticated_open(authendificated) == TRUE

\* check_authenticated: what it returns (it writes -NOAUTH when that is false)
check_authenticated(authendificated) == authendificated

\* A password check that accepts any password
check_password_any(parts) == Len(parts[2]) > 0

\* check_password: parts[1] of the source against PASSWORD
check_password(parts) == parts[2] = PASSWORD

\* check_params
check_params(parts) == ~(Len(parts) < 2)

\* The lock a command's arm of the match takes: store.read() or store.write()
lock_mode(command) ==
    IF command \in {GET, TTL} THEN "read"
    ELSE IF command \in {SET, DEL} THEN "write"
    ELSE "none"

\* ------------------------------------------------------------ the inputs
Sessions == {"c1", "c2"}

k1 == <<"k">>
k2 == <<"j">>
v1 == <<"h","i">>
v2 == <<"w","w">>
v3 == <<"u">>

\* A request line as the client sends it: tokens, single spaces, newline
RECURSIVE join(_)
join(tokens) ==
    IF tokens = <<>> THEN <<>>
    ELSE IF Len(tokens) = 1 THEN Head(tokens)
    ELSE Head(tokens) \o <<" ">> \o join(Tail(tokens))
Line(tokens) == join(tokens) \o <<"\n">>

\* The lines the first client may send: the whole protocol
LinesFull ==
    { Line(<<AUTH, PASSWORD>>), Line(<<AUTH, v1>>), Line(<<AUTH>>),
      Line(<<PING>>), Line(<<QUIT>>), Line(<<v1>>),
      Line(<<GET, k1>>), Line(<<GET>>),
      Line(<<TTL, k1>>), Line(<<TTL>>),
      Line(<<SET, k1, v1>>), Line(<<SET, k1, <<"1">>, v2>>),
      Line(<<SET, k2, v1>>), Line(<<SET, k1>>), Line(<<SET>>),
      Line(<<DEL, k1, k2, k1>>), Line(<<DEL>>),
      <<" ", "\r", "\n">>, <<"\n">> }

\* The lines every other client may send: it authenticates, writes and reads
\* the key the first client works on, in lower case and with stray blanks
LinesFew ==
    { Line(<<AUTH, PASSWORD>>), Line(<<SET, k1, <<"0">>, v3>>), Line(<<SET, k1>>),
      <<" ">> \o join(<<<<"g","e","t">>, k1>>) \o <<" ", "\r", "\n">> }

Lines(i) == IF i = "c1" THEN LinesFull ELSE LinesFew

\* The lines of a client that sets a key for ten seconds and watches its TTL
LinesTtl ==
    { Line(<<AUTH, PASSWORD>>), Line(<<SET, k1, <<"1","0">>, v1>>), Line(<<TTL, k1>>) }

\* The lines of a client that sets a key with every kind of ttl token: zero,
\* a second, signed, not a number, negative, u64::MAX and one more than it
t_max == U64_MAX
t_over == <<"1","8","4","4","6","7","4","4","0","7",
            "3","7","0","9","5","5","1","6","1","6">>
t_word == <<"x">>
t_neg == <<"-","1">>
t_plus == <<"+","0","1">>
LinesSet ==
    { Line(<<AUTH, PASSWORD>>), Line(<<GET, k1>>), Line(<<TTL, k1>>),
      Line(<<SET, k1, <<"0">>, v3>>), Line(<<SET, k1, <<"1">>, v2>>),
      Line(<<SET, k1, t_plus, v1>>), Line(<<SET, k1, t_word, v1>>),
      Line(<<SET, k1, t_neg, v2>>), Line(<<SET, k1, t_over, v3>>),
      Line(<<SET, k2, t_max, v1>>) }

\* The lines of a client whose entries a sweeper may remove
LinesSweep ==
    { Line(<<AUTH, PASSWORD>>), Line(<<SET, k1, <<"1">>, v2>>), Line(<<SET, k2, v1>>),
      Line(<<GET, k1>>), Line(<<TTL, k1>>), Line(<<DEL, k1, k2, k1>>) }

\* The lines of a client that comes and goes: it authenticates or not,
\* pings, sends an unknown command, reads and writes, and ends
LinesSession ==
    { Line(<<AUTH, PASSWORD>>), Line(<<AUTH, v1>>), Line(<<PING>>), Line(<<QUIT>>),
      Line(<<v1>>), Line(<<GET, k1>>), Line(<<SET, k2, v1>>),
      <<" ", "\r", "\n">>, <<"\n">> }

\* What read_line hands back: Err, or Ok(n) with the n bytes appended to the
\* buffer (n = 0 at end of stream).
ReadResult(err, buffer) == [err |-> err, buffer |-> buffer]
ReadResults(i) ==
    {ReadResult(TRUE, <<>>), ReadResult(FALSE, <<>>)}
    \cup {ReadResult(FALSE, l) : l \in Lines(i)}

\* buffer.trim().split_whitespace().collect() of every line a client may send
Parsed ==
    [l \in LinesFull \cup LinesFew \cup LinesTtl \cup LinesSet \cup LinesSweep |->
        split_whitespace(trim(l))]

\* ------------------------------------------------------------- the state
VARIABLES
    store,            \* the shared HashMap
    now,              \* the monotonic clock (Instant::now()), in ticks
    lock,             \* RwLock: what each worker holds, "none" | "read" | "write"
    poisoned,         \* RwLock: a writer panicked while holding it
    pc,               \* each worker's position in handle_connection
    authendificated,  \* each session's flag
    parts,            \* each worker's current (last) request, split
    resp,             \* the last line each worker wrote to its client
    exit,             \* why a worker ended ("" while it runs)
    local,            \* a worker's value carried between two steps of a handler
    written,          \* history: per key, the last SET or DEL request that wrote it
    seen,             \* history: per key, the last number a TTL query answered
                      \* since the key was last SET
    unswept           \* history: the map as the same requests would have left
                      \* it had no sweep ever removed an entry

vars == <<store, now, lock, poisoned, pc, authendificated, parts, resp, exit, local,
          written, seen, unswept>>

Init ==
    /\ store = <<>>
    /\ now = 0
    /\ lock = [i \in Sessions |-> "none"]
    /\ poisoned = FALSE
    /\ pc = [i \in Sessions |-> "read"]
    /\ authendificated = [i \in Sessions |-> FALSE]
    /\ parts = [i \in Sessions |-> <<>>]
    /\ resp = [i \in Sessions |-> NoReply]
    /\ exit = [i \in Sessions |-> ""]
    /\ local = [i \in Sessions |-> None]
    /\ written = <<>>
    /\ seen = <<>>
    /\ unswept = <<>>

command(i) == to_uppercase(parts[i][1])

\* A worker that ends and goes on reading all the same
Terminate_reopen(i, why) ==
    /\ pc' = [pc EXCEPT ![i] = "read"]
    /\ exit' = [exit EXCEPT ![i] = why]
    /\ lock' = [lock EXCEPT ![i] = "none"]
    /\ local' = [local EXCEPT ![i] = None]
    /\ parts' = [parts EXCEPT ![i] = <<>>]
    /\ authendificated' = [authendificated EXCEPT ![i] = FALSE]

\* The worker ends: return, or a panic unwinding.  Its locals (the flag,
\* the request, the guard if held) are dropped; what it wrote stays written.
Terminate(i, why) ==
    /\ pc' = [pc EXCEPT ![i] = "closed"]
    /\ exit' = [exit EXCEPT ![i] = why]
    /\ lock' = [lock EXCEPT ![i] = "none"]
    /\ local' = [local EXCEPT ![i] = None]
    /\ parts' = [parts EXCEPT ![i] = <<>>]
    /\ authendificated' = [authendificated EXCEPT ![i] = FALSE]

\* History of the writes: the request that wrote a key last; for a SET that
\* names a ttl, the clock when it was served; for a DEL, how many of the
\* entries it removed had expired
names_ttl(ps) == Len(ps) = 4 /\ unwrap_or(parse_u64(ps[3]), 0) > 0
WroteSet(ps, t) ==
    [op |-> "set", parts |-> ps, at |-> IF names_ttl(ps) THEN t ELSE 0, expired |-> 0]
WroteDel(n) == [op |-> "del", parts |-> <<>>, at |-> 0, expired |-> n]
Expired(m, t) ==
    {k \in DOMAIN m : is_some(m[k].expires_at) /\ unwrap(m[k].expires_at) <= t}
RECURSIVE wrote_all(_, _, _)
wrote_all(keys, w, rec) ==
    IF keys = <<>> THEN w ELSE wrote_all(Tail(keys), insert(w, Head(keys), rec), rec)

\* The worker goes on to position `next`, holding what it holds
Goto(i, next) ==
    /\ pc' = [pc EXCEPT ![i] = next]
    /\ UNCHANGED <<exit, lock, local, authendificated>>

\* An arm of the match whose guard outlives it
Release_keep(i) ==
    /\ pc' = [pc EXCEPT ![i] = "read"]
    /\ local' = [local EXCEPT ![i] = None]
    /\ UNCHANGED <<exit, authendificated, parts, lock>>

\* The arm of the match ends: the guard drops and the loop reads again
Release(i) ==
    /\ pc' = [pc EXCEPT ![i] = "read"]
    /\ lock' = [lock EXCEPT ![i] = "none"]
    /\ local' = [local EXCEPT ![i] = None]
    /\ UNCHANGED <<exit, authendificated, parts>>

Write(i, reply) == resp' = [resp EXCEPT ![i] = reply]

\* handle_connection, one turn of the loop up to the point where the arm of
\* the match either finishes or asks for the store.  resp[i] is what the
\* worker has written since it read the line.
ReadLine(i, r) ==
    /\ pc[i] = "read"
    /\ UNCHANGED <<store, now, poisoned, written, seen, unswept>>
    /\ LET trimmed == trim(r.buffer)
           ps == Parsed[r.buffer]
           cmd == to_uppercase(ps[1])
           Serve == parts' = [parts EXCEPT ![i] = ps]
       IN  IF r.err
           THEN Write(i, NoReply) /\ Terminate(i, "read error")
           ELSE IF Len(r.buffer) = 0
           THEN Write(i, NoReply) /\ Terminate(i, "zero bytes")
           ELSE IF trimmed = <<>>
           THEN Write(i, NoReply) /\ Terminate(i, "empty line")
           ELSE IF ps = <<>>
           THEN Write(i, ReplyEmptyCmd) /\ Terminate(i, "panic: index out of bounds")
           ELSE IF cmd = AUTH
           THEN IF ~check_params(ps)
                THEN Serve /\ Write(i, ReplyWrongArgs(cmd)) /\ Goto(i, "read")
                ELSE /\ Serve
                     /\ authendificated' =
                           [authendificated EXCEPT ![i] = check_password(ps)]
                     /\ Write(i, IF check_password(ps) THEN ReplyOk ELSE ReplyBadPass)
                     /\ UNCHANGED <<pc, exit, lock, local>>
           ELSE IF cmd = PING
           THEN Serve /\ Write(i, ReplyPong) /\ Goto(i, "read")
           ELSE IF cmd \in {GET, TTL, SET, DEL}
           THEN IF ~check_authenticated(authendificated[i])
                THEN Serve /\ Write(i, ReplyNoAuth) /\ Goto(i, "read")
                ELSE Serve /\ Write(i, NoReply) /\ Goto(i, "lock")
           ELSE IF cmd = QUIT
           THEN Write(i, ReplyOk) /\ Terminate(i, "quit")
           ELSE Serve /\ Write(i, ReplyUnknown(cmd)) /\ Goto(i, "read")

\* A read() that is granted without waiting for the writer
can_read_always(held, i) == TRUE

\* RwLock, the lock handle_connection takes (main builds the store with
\* Mutex::new, which does not type-check against it): read() is granted
\* while no writer holds the lock, write() while nobody holds it.  The lock
\* is poisoned when a worker panics while it holds the write guard.
can_read(held, i) == \A j \in Sessions \ {i} : held[j] # "write"
can_write(held, i) == \A j \in Sessions \ {i} : held[j] = "none"
can_acquire(held, i, mode) ==
    IF mode = "read" THEN can_read(held, i) ELSE can_write(held, i)

\* store.read().unwrap() / store.write().unwrap(): blocks until granted;
\* a poisoned lock yields Err and unwrap panics
Acquire(i) ==
    /\ pc[i] = "lock"
    /\ can_acquire(lock, i, lock_mode(command(i)))
    /\ UNCHANGED <<store, now, poisoned, resp, written, seen, unswept>>
    /\ IF poisoned
       THEN Terminate(i, "panic: poisoned lock")
       ELSE /\ lock' = [lock EXCEPT ![i] = lock_mode(command(i))]
            /\ pc' = [pc EXCEPT ![i] = "exec"]
            /\ UNCHANGED <<exit, local, authendificated, parts>>

\* "GET" arm: handle_get under the read guard
ExecGet(i) ==
    /\ pc[i] = "exec" /\ command(i) = GET
    /\ UNCHANGED <<store, now, poisoned, written, seen, unswept>>
    /\ LET r == handle_get(parts[i], store, now)
       IN  IF is_some(r)
           THEN Write(i, unwrap(r)) /\ Release(i)
           ELSE Terminate(i, "panic: index out of bounds") /\ UNCHANGED resp

\* "TTL" arm, first half: key_from_request, then get_by_key reads the clock
ExecTtl(i) ==
    /\ pc[i] = "exec" /\ command(i) = TTL
    /\ UNCHANGED <<store, now, poisoned, resp, written, seen, unswept>>
    /\ IF is_some(key_from_request(parts[i]))
       THEN /\ pc' = [pc EXCEPT ![i] = "ttl"]
            /\ local' = [local EXCEPT ![i] = Some(now)]
            /\ UNCHANGED <<exit, lock, authendificated, parts>>
       ELSE Terminate(i, "panic: index out of bounds")

\* "TTL" arm, second half: the second clock reading and the reply
TtlReply(i) ==
    /\ pc[i] = "ttl"
    /\ UNCHANGED <<store, now, poisoned, written, unswept>>
    /\ LET r == handle_ttl(parts[i], store, unwrap(local[i]), now)
       IN  IF is_some(r)
           THEN /\ Write(i, unwrap(r)) /\ Release(i)
                /\ seen' = IF unwrap(r).fmt = "{}"
                            THEN insert(seen, parts[i][2], unwrap(r).num)
                            ELSE seen
           ELSE Terminate(i, "panic: unwrap on None") /\ UNCHANGED <<resp, seen>>

\* "SET" arm, first half, under the write guard: the key and the entry are
\* built (the clock is read) and the insert begins.  Writing an entry into
\* the map is not one indivisible memory write, so it takes two steps: after
\* the first the slot holds the new value while its expires_at is still the
\* one it had.  Only the guard keeps readers from this state.  A panic while
\* the key or the entry is built unwinds through the write guard, which
\* poisons the lock.
ExecSet(i) ==
    /\ pc[i] = "exec" /\ command(i) = SET
    /\ UNCHANGED <<now, resp>>
    /\ LET r == handle_set(parts[i], store, now)
           key == unwrap(key_from_request(parts[i]))
       IN  IF is_some(r)
           THEN /\ store' = insert(store, key,
                       CacheEntry(IF contains_key(store, key)
                                  THEN store[key].expires_at ELSE None,
                                  unwrap(r)[key].value))
                /\ local' = [local EXCEPT ![i] = Some(unwrap(r)[key])]
                /\ pc' = [pc EXCEPT ![i] = "insert"]
                /\ written' = insert(written, key, WroteSet(parts[i], now))
                /\ seen' = remove(seen, key)
                /\ unswept' = unwrap(handle_set(parts[i], unswept, now))
                /\ UNCHANGED <<exit, lock, poisoned, authendificated, parts>>
           ELSE /\ Terminate(i, IF Len(parts[i]) < 3
                                 THEN "panic: index out of bounds"
                                 ELSE "panic: overflow when adding duration to instant")
                /\ poisoned' = (poisoned \/ lock[i] = "write")
                /\ UNCHANGED <<store, written, seen, unswept>>

\* "SET" arm, second half: the insert completes and +OK is written
Insert(i) ==
    /\ pc[i] = "insert"
    /\ store' = insert(store, unwrap(key_from_request(parts[i])), unwrap(local[i]))
    /\ Write(i, ReplyOk)
    /\ Release(i)
    /\ UNCHANGED <<now, poisoned, written, seen, unswept>>

\* "DEL" arm: handle_del under the write guard
ExecDel(i) ==
    /\ pc[i] = "exec" /\ command(i) = DEL
    /\ store' = handle_del(parts[i], store).store
    /\ Write(i, ReplyCount(handle_del(parts[i], store).deleted))
    /\ Release(i)
    /\ written' = wrote_all(keys_from_request(parts[i]), written,
                  WroteDel(Cardinality(Expired(store, now)
                              \cap {parts[i][n] : n \in 2..Len(parts[i])})))
    /\ unswept' = handle_del(parts[i], unswept).store
    /\ UNCHANGED <<now, poisoned, seen>>

\* The monotonic clock advances
TickTo(limit) ==
    /\ now < limit
    /\ now' = now + 1
    /\ UNCHANGED <<store, lock, poisoned, pc, authendificated, parts, resp, exit, local,
                   written, seen, unswept>>

Next ==
    \/ \E i \in Sessions : \E r \in ReadResults(i) : ReadLine(i, r)
    \/ \E i \in Sessions : Acquire(i)
    \/ \E i \in Sessions : ExecGet(i)
    \/ \E i \in Sessions : ExecTtl(i)
    \/ \E i \in Sessions : TtlReply(i)
    \/ \E i \in Sessions : ExecSet(i)
    \/ \E i \in Sessions : Insert(i)
    \/ \E i \in Sessions : ExecDel(i)
    \/ TickTo(MaxNow)

Spec == Init /\ [][Next]_vars

\* One client, a ten-second ttl and a clock that runs past it
NextTtl ==
    \/ \E l \in LinesTtl : ReadLine("c1", ReadResult(FALSE, l))
    \/ Acquire("c1")
    \/ ExecTtl("c1")
    \/ TtlReply("c1")
    \/ ExecSet("c1")
    \/ Insert("c1")
    \/ TickTo(MaxNowLong)

SpecTtl == Init /\ [][NextTtl]_vars

\* One client that comes and goes, with every way a connection ends, and one
\* that works on meanwhile
NextSession ==
    \/ \E r \in {ReadResult(TRUE, <<>>), ReadResult(FALSE, <<>>)}
                \cup {ReadResult(FALSE, l) : l \in LinesSession} : ReadLine("c1", r)
    \/ \E r \in ReadResults("c2") : ReadLine("c2", r)
    \/ \E i \in Sessions : Acquire(i)
    \/ \E i \in Sessions : ExecGet(i)
    \/ \E i \in Sessions : ExecSet(i)
    \/ \E i \in Sessions : Insert(i)
    \/ TickTo(MaxNow)

SpecSession == Init /\ [][NextSession]_vars

\* One client that sets a key with every kind of ttl token, one that watches
NextSet ==
    \/ \E l \in LinesSet : ReadLine("c1", ReadResult(FALSE, l))
    \/ \E l \in LinesFew : ReadLine("c2", ReadResult(FALSE, l))
    \/ \E i \in Sessions : Acquire(i)
    \/ \E i \in Sessions : ExecGet(i)
    \/ ExecTtl("c1")
    \/ TtlReply("c1")
    \/ \E i \in Sessions : ExecSet(i)
    \/ \E i \in Sessions : Insert(i)
    \/ TickTo(MaxNow)

SpecSet == Init /\ [][NextSet]_vars

\* One turn of the loop of periodic_cleanup's thread, after its sleep:
\* store.write().unwrap() is granted when nobody holds the lock (on a
\* poisoned lock it panics and the thread is gone for good), retain drops
\* the entries that are due, and the guard drops at the end of the turn.
\* The clock readings of one retain are taken as one instant.
periodic_cleanup ==
    /\ \A i \in Sessions : lock[i] = "none"
    /\ ~poisoned
    /\ store' = retain(store, now)
    /\ UNCHANGED <<now, lock, poisoned, pc, authendificated, parts, resp, exit, local,
                   written, seen, unswept>>

\* main does not call periodic_cleanup.  This is the program as it would run
\* had main started it: one client, and the sweeper
NextSweep ==
    \/ \E l \in LinesSweep : ReadLine("c1", ReadResult(FALSE, l))
    \/ Acquire("c1")
    \/ ExecGet("c1")
    \/ ExecTtl("c1")
    \/ TtlReply("c1")
    \/ ExecSet("c1")
    \/ Insert("c1")
    \/ ExecDel("c1")
    \/ periodic_cleanup
    \/ TickTo(MaxNow)

SpecSweep == Init /\ [][NextSweep]_vars

\* The program as main runs it, with what its scheduling guarantees: the
\* clock advances and a worker that can take a step of a request it has
\* read takes it.  Nothing makes a client send a line.
WorkerStep(i) ==
    Acquire(i) \/ ExecGet(i) \/ ExecTtl(i) \/ TtlReply(i) \/ ExecSet(i)
        \/ Insert(i) \/ ExecDel(i)
SpecFair ==
    /\ Init /\ [][NextTtl]_vars
    /\ WF_vars(TickTo(MaxNowLong))
    /\ WF_vars(WorkerStep("c1"))

\* ======================================================================
\* Properties
\* ======================================================================
Gated == {GET, TTL, SET, DEL}
AtStore == {"lock", "exec", "ttl", "insert"}

\* Worker i takes a turn of its loop in this step: it read a line (or failed
\* to) and something of its own changed.
ReadStep(i) ==
    /\ pc[i] = "read"
    /\ <<pc[i], parts[i], resp[i], authendificated[i], exit[i]>>'
          # <<pc[i], parts[i], resp[i], authendificated[i], exit[i]>>

\* The command of the request worker i holds after the step
command_next(i) == to_uppercase(parts'[i][1])

\* C1: while a session is not authenticated, GET, TTL, SET and DEL (with any
\* arguments, also none) are answered -NOAUTH and never get to the store:
\* the session stays at the head of its loop, no unauthenticated worker is
\* ever at the store, and every change of the store is made by an
\* authenticated worker holding the write guard.  AUTH, PING, QUIT and
\* unknown commands are never answered -NOAUTH.
C1_NoAuthGate ==
    /\ [](\A i \in Sessions : pc[i] \in AtStore => authendificated[i])
    /\ [][\A i \in Sessions :
            (ReadStep(i) /\ ~authendificated[i]) =>
                IF pc'[i] # "closed" /\ command_next(i) \in Gated
                THEN /\ resp'[i] = ReplyNoAuth
                     /\ pc'[i] = "read"
                     /\ ~authendificated'[i]
                     /\ store' = store
                ELSE resp'[i] # ReplyNoAuth]_vars
    /\ [][store' # store =>
            \E i \in Sessions : authendificated[i] /\ lock[i] = "write"]_vars

\* An unauthenticated session was refused a DEL of a key that is in the store
C1_Witness ==
    \E i \in Sessions :
        /\ ~authendificated[i] /\ pc[i] = "read"
        /\ parts[i] = <<DEL, k1, k2, k1>>
        /\ resp[i] = ReplyNoAuth
        /\ contains_key(store, k1)

\* C2: every session starts unauthenticated.  AUTH with a wrong password
\* answers -ERR invalid password and leaves the session unauthenticated,
\* whatever it was before; AUTH with the right password answers +OK and
\* authenticates it; an authenticated session's GET, TTL, SET and DEL go on
\* to the store.  A session's flag changes in no other step than its own
\* AUTH (or its end), so it is set only if its last password check succeeded.
C2_Auth ==
    /\ \A i \in Sessions : ~authendificated[i]
    /\ [][\A i \in Sessions :
            (ReadStep(i) /\ pc'[i] # "closed" /\ command_next(i) = AUTH
                /\ Len(parts'[i]) >= 2) =>
                IF parts'[i][2] = PASSWORD
                THEN resp'[i] = ReplyOk /\ authendificated'[i] /\ pc'[i] = "read"
                ELSE resp'[i] = ReplyBadPass /\ ~authendificated'[i] /\ pc'[i] = "read"]_vars
    /\ [][\A i \in Sessions :
            authendificated'[i] # authendificated[i] =>
                \/ pc'[i] = "closed" /\ ~authendificated'[i]
                \/ ReadStep(i) /\ command_next(i) = AUTH /\ Len(parts'[i]) >= 2]_vars
    /\ [][\A i \in Sessions :
            (ReadStep(i) /\ authendificated[i] /\ pc'[i] # "closed"
                /\ command_next(i) \in Gated) => pc'[i] = "lock"]_vars

\* A session that had written to the store (k2 is written by c1 alone) gave a
\* wrong password and is unauthenticated again
C2_Witness ==
    /\ ~authendificated["c1"] /\ pc["c1"] = "read"
    /\ resp["c1"] = ReplyBadPass
    /\ contains_key(store, k2)

\* Steps in which a worker runs an arm of the match under its guard
GetStep(i) == pc[i] = "exec" /\ command(i) = GET /\ pc'[i] # "exec"
TtlStep(i) == pc[i] = "ttl" /\ pc'[i] # "ttl"
DelStep(i) == pc[i] = "exec" /\ command(i) = DEL /\ pc'[i] # "exec"

\* The request that wrote key k last was a SET / a SET naming ttl seconds > 0
LastSet(k) == k \in DOMAIN written /\ written[k].op = "set"
LastSetTtl(k) ==
    IF LastSet(k) /\ Len(written[k].parts) = 4
    THEN unwrap_or(parse_u64(written[k].parts[3]), 0)
    ELSE 0
\* ... and the instant that SET's entry expires
Deadline(k) == written[k].at + LastSetTtl(k) * TicksPerSec

\* C3: a GET of a key whose last write was 'SET k v' (no ttl) answers the
\* bulk string of exactly v, with v's length, whatever the key held before.
C3_SetGet ==
    [][\A i \in Sessions :
        (GetStep(i) /\ Len(parts[i]) >= 2 /\ LastSet(parts[i][2])
            /\ Len(written[parts[i][2]].parts) = 3) =>
            LET v == written[parts[i][2]].parts[3]
            IN  /\ resp'[i] = [fmt |-> "${}\r\n{}", num |-> Len(v), arg |-> v]
                /\ pc'[i] = "read"]_vars

\* A session read back the two-character value that 'SET k hi' gave k1
C3_Witness ==
    \E i \in Sessions :
        /\ pc[i] = "read" /\ parts[i] = <<GET, k1>>
        /\ LastSet(k1) /\ written[k1].parts = <<SET, k1, v1>>
        /\ resp[i] = [fmt |-> "${}\r\n{}", num |-> 2, arg |-> v1]

\* C4: a GET of a key whose last write was a SET with ttl > 0 answers the
\* value while the clock is before the SET's clock + ttl, and $-1 from that
\* instant on, also while the entry is still in the map.
C4_Expiry ==
    [][\A i \in Sessions :
        (GetStep(i) /\ Len(parts[i]) >= 2 /\ LastSetTtl(parts[i][2]) > 0) =>
            LET k == parts[i][2]
                v == written[k].parts[4]
            IN  /\ now < Deadline(k) =>
                      resp'[i] = [fmt |-> "${}\r\n{}", num |-> Len(v), arg |-> v]
                /\ now >= Deadline(k) => resp'[i] = ReplyNil
                /\ pc'[i] = "read"]_vars

\* A GET answered $-1 for a key whose expired entry is still in the map
C4_Witness ==
    \E i \in Sessions :
        /\ pc[i] = "read" /\ parts[i] = <<GET, k1>>
        /\ resp[i] = ReplyNil
        /\ contains_key(store, k1) /\ is_some(store[k1].expires_at)
        /\ LastSetTtl(k1) > 0 /\ now >= Deadline(k1)

\* C5: TTL answers -1, never a number, for a key that was never written, for
\* a key whose last write was a SET without ttl or with ttl 0, and for a key
\* whose entry was expired when the query looked it up but is still in the map.
C5_TtlMinusOne ==
    [][\A i \in Sessions :
        (TtlStep(i) /\
            LET k == parts[i][2]
            IN  \/ k \notin DOMAIN written
                \/ /\ LastSet(k)
                   /\ \/ Len(written[k].parts) = 3
                      \/ Len(written[k].parts) = 4 /\ written[k].parts[3] = <<"0">>
                \/ /\ LastSetTtl(k) > 0 /\ contains_key(store, k)
                   /\ unwrap(local[i]) >= Deadline(k)) =>
            resp'[i] = ReplyMinusOne /\ pc'[i] = "read"]_vars

\* A TTL answered -1 for a key whose expired entry is still in the map
C5_Witness ==
    \E i \in Sessions :
        /\ pc[i] = "read" /\ parts[i] = <<TTL, k1>>
        /\ resp[i] = ReplyMinusOne
        /\ contains_key(store, k1) /\ is_some(store[k1].expires_at)

\* C7: DEL answers the number of distinct listed keys that are in the store,
\* removes exactly the listed keys and leaves the others as they were; when
\* the last write of every listed key was a DEL (or there was none), it
\* answers :0.
C7_Del ==
    [][\A i \in Sessions :
        DelStep(i) =>
            LET listed == {parts[i][n] : n \in 2..Len(parts[i])}
            IN  /\ resp'[i] = [fmt |-> ":{}",
                               num |-> Cardinality(listed \cap DOMAIN store),
                               arg |-> <<>>]
                /\ DOMAIN store' = DOMAIN store \ listed
                /\ \A k \in DOMAIN store' : store'[k] = store[k]
                /\ (\A k \in listed : ~LastSet(k)) => resp'[i].num = 0
                /\ pc'[i] = "read"]_vars

\* 'DEL k j k' with both keys present answered :2 and emptied the store
C7_Witness ==
    \E i \in Sessions :
        /\ pc[i] = "read" /\ parts[i] = <<DEL, k1, k2, k1>>
        /\ resp[i] = ReplyCount(2)
        /\ store = <<>>

\* A TTL query on key k that is answered with a number in this step
TtlNumber(i, k) ==
    /\ TtlStep(i) /\ parts[i][2] = k
    /\ pc'[i] = "read" /\ resp'[i].fmt = "{}"

\* C6, as claimed: TTL on a key set with ttl=10 answers a number in [1,10]
\* while at most nine seconds have passed since the SET, and every later
\* answer for that key is strictly smaller than the one before.
C6_StrictlyDecreasing ==
    [][\A i \in Sessions : \A k \in DOMAIN written :
        (TtlNumber(i, k) /\ LastSetTtl(k) = 10) =>
            /\ now - written[k].at <= 9 * TicksPerSec => resp'[i].num \in 1..10
            /\ k \in DOMAIN seen => resp'[i].num < seen[k]]_vars

\* C6, amended: TTL on a key set with ttl=10 is answered, with a number in
\* [1,10], whenever at most nine seconds have passed since the SET; every
\* number it answers is the whole seconds left until the SET's clock + 10 s,
\* in [0,10]; successive answers for the un-rewritten key never increase
\* (two queries within the same second answer the same number).
C6_TtlNonIncreasing ==
    [][\A i \in Sessions : \A k \in DOMAIN written :
        (TtlStep(i) /\ parts[i][2] = k /\ LastSetTtl(k) = 10) =>
            /\ now - written[k].at <= 9 * TicksPerSec =>
                  pc'[i] = "read" /\ resp'[i].fmt = "{}" /\ resp'[i].num \in 1..10
            /\ TtlNumber(i, k) =>
                  /\ resp'[i].num \in 0..10
                  /\ resp'[i].num = (Deadline(k) - now) \div TicksPerSec
                  /\ k \in DOMAIN seen => resp'[i].num <= seen[k]]_vars

\* Two queries more than two seconds after the SET: the second answered 7
C6_Witness ==
    /\ pc["c1"] = "read" /\ parts["c1"] = <<TTL, k1>>
    /\ resp["c1"] = ReplySeconds(7)
    /\ LastSetTtl(k1) = 10
    /\ now - written[k1].at > 2 * TicksPerSec

\* The value and the entry the protocol gives the request 'SET key [ttl] value'
ValueOf(ps) == IF Len(ps) = 4 THEN ps[4] ELSE ps[3]
EntryOf(k) ==
    [expires_at |-> IF LastSetTtl(k) > 0 THEN Some(Deadline(k)) ELSE None,
     value |-> ValueOf(written[k].parts)]

\* C8: concurrent writers and readers are serialised: while a worker holds
\* the write guard nobody else holds a guard, and an insert in progress is
\* under the write guard.  So the entry a GET finds is, whole, the entry of
\* the one SET that wrote the key last (its value with its own expiry), and
\* a GET of a key last written by a SET without ttl answers that SET's value.
C8_Serialised ==
    /\ [](\A i \in Sessions : \A j \in Sessions \ {i} :
            lock[i] = "write" => lock[j] = "none")
    /\ [](\A i \in Sessions : pc[i] = "insert" => lock[i] = "write")
    /\ [][\A i \in Sessions :
            (GetStep(i) /\ Len(parts[i]) >= 2) =>
                LET k == parts[i][2]
                IN  /\ contains_key(store, k) => LastSet(k) /\ store[k] = EntryOf(k)
                    /\ (LastSet(k) /\ LastSetTtl(k) = 0) =>
                          resp'[i] = ReplyBulk(ValueOf(written[k].parts))]_vars

\* Two sessions are writing k1 at once: c2 is in the middle of its insert (the
\* slot holds its value with the expiry of the entry it replaces) while c1
\* waits for the write guard with a SET of its own
C8_Witness ==
    /\ pc["c2"] = "insert" /\ lock["c2"] = "write"
    /\ store[k1].value = v3 /\ is_some(store[k1].expires_at)
    /\ pc["c1"] = "lock" /\ parts["c1"] = <<SET, k1, v1>>

\* C9, as claimed: the end of one worker leaves the others able to take the
\* store and finish their requests: no worker ends on the lock another one
\* poisoned, and a worker's end leaves the store as it was.
C9_OthersUnaffected ==
    /\ [](\A i \in Sessions : exit[i] # "panic: poisoned lock")
    /\ [][\A i \in Sessions :
            (pc[i] # "closed" /\ pc'[i] = "closed") => store' = store]_vars

\* C10, as claimed: an authenticated session's AUTH, GET, TTL or DEL without
\* an argument, or SET with fewer than two, is answered -ERR wrong number of
\* arguments for '<command>', changes neither the store nor the flag and
\* leaves the worker at the head of its loop.
TooFew(ps) ==
    \/ to_uppercase(ps[1]) \in {AUTH, GET, TTL, DEL} /\ Len(ps) < 2
    \/ to_uppercase(ps[1]) = SET /\ Len(ps) < 3
C10_ArityChecked ==
    [][\A i \in Sessions :
        (ReadStep(i) /\ authendificated[i] /\ pc'[i] # "closed"
            /\ TooFew(parts'[i])) =>
            /\ resp'[i] = ReplyWrongArgs(command_next(i))
            /\ pc'[i] = "read"
            /\ authendificated'[i]
            /\ store' = store]_vars

\* What a client may send or suffer that ends its connection: a read error,
\* end of stream, QUIT, an empty line and a line of blanks
Closing ==
    {ReadResult(TRUE, <<>>), ReadResult(FALSE, <<>>)}
    \cup {ReadResult(FALSE, l) : l \in {Line(<<QUIT>>), <<" ", "\r", "\n">>, <<"\n">>}}

QuitRead == ReadResult(FALSE, Line(<<QUIT>>))

\* C13: QUIT (answered +OK), an empty or blank line, a zero-byte read and a
\* read error end the connection in either authentication state, and an
\* ended connection is never re-entered: its worker stays ended, writes
\* nothing more, holds no request, no flag and no guard, and every change of
\* the store is made by a worker that has not ended.
C13_NoReentry ==
    /\ [](\A i \in Sessions : pc[i] = "closed" <=> exit[i] # "")
    /\ [](\A i \in Sessions : pc[i] = "closed" =>
            lock[i] = "none" /\ parts[i] = <<>> /\ ~authendificated[i])
    /\ [](\A i \in Sessions : \A r \in Closing :
            pc[i] = "read" => ENABLED ReadLine(i, r))
    /\ [][\A i \in Sessions : \A r \in Closing :
            ReadLine(i, r) =>
                /\ pc'[i] = "closed"
                /\ store' = store
                /\ resp'[i] = IF r = QuitRead THEN ReplyOk ELSE NoReply]_vars
    /\ [][\A i \in Sessions :
            pc[i] = "closed" =>
                /\ pc'[i] = "closed"
                /\ <<resp[i], parts[i], exit[i], lock[i], authendificated[i]>>'
                      = <<resp[i], parts[i], exit[i], lock[i], authendificated[i]>>]_vars
    /\ [][store' # store => \E i \in Sessions : pc[i] \in {"exec", "insert"}]_vars

\* A session that had written k2 has quit, was answered +OK and is ended,
\* while the other session has since been served a request
C13_Witness ==
    /\ pc["c1"] = "closed" /\ exit["c1"] = "quit" /\ resp["c1"] = ReplyOk
    /\ contains_key(store, k2)
    /\ pc["c2"] = "read" /\ parts["c2"] # <<>>

\* C14: DEL counts physical presence.  A listed key whose entry has expired
\* (expires_at <= now) and is still in the map is removed by DEL and counted
\* in its reply, although a GET and a TTL of that key in the same state
\* answer $-1 and -1.
C14_DelCountsExpired ==
    [][\A i \in Sessions :
        DelStep(i) =>
            LET listed == {parts[i][n] : n \in 2..Len(parts[i])}
                gone == listed \cap Expired(store, now)
            IN  /\ resp'[i].fmt = ":{}"
                /\ resp'[i].num = Cardinality(gone)
                                  + Cardinality((listed \cap DOMAIN store) \ gone)
                /\ \A k \in gone :
                      /\ ~contains_key(store', k)
                      /\ handle_get(<<GET, k>>, store, now) = Some(ReplyNil)
                      /\ handle_ttl(<<TTL, k>>, store, now, now) = Some(ReplyMinusOne)]_vars

\* 'DEL k j k' answered :1: the one entry it removed was k1's, expired and
\* still in the map
C14_Witness ==
    \E i \in Sessions :
        /\ pc[i] = "read" /\ parts[i] = <<DEL, k1, k2, k1>>
        /\ resp[i] = ReplyCount(1)
        /\ k1 \in DOMAIN written /\ written[k1] = WroteDel(1)

\* Steps of the "SET" arm: the insert begins, the insert completes
SetStep(i) == pc[i] = "exec" /\ command(i) = SET /\ pc'[i] = "insert"
InsertStep(i) == pc[i] = "insert" /\ pc'[i] # "insert"

\* C16: the map holds one entry per key (it is a function of the key), and
\* a SET replaces the whole entry: when it completes, the key holds the
\* request's value with no expiry if the request names no ttl (or ttl 0),
\* whatever expiry the replaced entry had, and with expiry ttl seconds after
\* this SET read the clock otherwise; +OK is answered; no step of a SET
\* changes another key.
C16_SetReplaces ==
    /\ [][\A i \in Sessions :
            SetStep(i) =>
                /\ DOMAIN store' = DOMAIN store \cup {parts[i][2]}
                /\ \A j \in DOMAIN store \ {parts[i][2]} : store'[j] = store[j]]_vars
    /\ [][\A i \in Sessions :
            InsertStep(i) =>
                LET k == parts[i][2]
                    ttl == IF Len(parts[i]) = 4
                           THEN unwrap_or(parse_u64(parts[i][3]), 0) ELSE 0
                IN  /\ written[k].parts = parts[i]
                    /\ store'[k].value = ValueOf(parts[i])
                    /\ store'[k].expires_at =
                          IF ttl = 0 THEN None
                          ELSE Some(written[k].at + ttl * TicksPerSec)
                    /\ DOMAIN store' = DOMAIN store
                    /\ \A j \in DOMAIN store \ {k} : store'[j] = store[j]
                    /\ resp'[i] = ReplyOk /\ pc'[i] = "read"]_vars

\* The second session read 'ww', the value k1 holds only by 'SET k 1 ww';
\* the first has since completed 'SET k hi' and k1 holds hi with no expiry
C16_Witness ==
    /\ parts["c2"] = <<<<"g","e","t">>, k1>> /\ resp["c2"] = ReplyBulk(v2)
    /\ pc["c1"] = "read" /\ parts["c1"] = <<SET, k1, v1>> /\ resp["c1"] = ReplyOk
    /\ store[k1] = CacheEntry(None, v1)

\* A PING and an unknown command, as read_line hands them back
Ungated == {ReadResult(FALSE, Line(<<PING>>)), ReadResult(FALSE, Line(<<v1>>))}

\* C18: PING and unknown commands are served in either authentication state:
\* a worker at the head of its loop takes them whether its flag is set or
\* not, answers +PONG, respectively -ERR: unknown command '<name>', and stays
\* at the head of its loop; the store, every guard and the flag are as they
\* were.
C18_PingUnknown ==
    /\ [](\A i \in Sessions : \A r \in Ungated :
            pc[i] = "read" => ENABLED ReadLine(i, r))
    /\ [][\A i \in Sessions :
            (ReadStep(i) /\ pc'[i] # "closed"
                /\ command_next(i) \notin Gated \cup {AUTH}) =>
                /\ resp'[i] = IF command_next(i) = PING
                              THEN [fmt |-> "+PONG", num |-> 0, arg |-> <<>>]
                              ELSE [fmt |-> "-ERR: unknown command '{}'", num |-> 0,
                                    arg |-> to_uppercase(parts'[i][1])]
                /\ pc'[i] = "read"
                /\ authendificated'[i] = authendificated[i]
                /\ store' = store /\ lock' = lock /\ poisoned' = poisoned]_vars

\* One session, authenticated (it wrote k2), was answered +PONG and is still
\* authenticated; the other has not authenticated
C18_Witness ==
    /\ pc["c1"] = "read" /\ parts["c1"] = <<PING>> /\ authendificated["c1"]
    /\ resp["c1"].fmt = "+PONG"
    /\ contains_key(store, k2)
    /\ exit["c2"] = "" /\ ~authendificated["c2"]

\* C19, as claimed: a TTL request that names a key never fails: however far
\* the clock advances between the reading in get_by_key and the reading that
\* computes the time left, the worker answers -1 or a number >= 0 and goes
\* on to read its next line.
C19_TtlNeverFails ==
    [][\A i \in Sessions :
        TtlStep(i) =>
            /\ pc'[i] = "read"
            /\ \/ resp'[i] = ReplyMinusOne
               \/ resp'[i].fmt = "{}" /\ resp'[i].num >= 0]_vars

\* C20: a worker that waits for its next line (or has ended) holds no guard,
\* read or write: every arm that takes the lock has dropped it when the loop
\* reads again.  So a worker that asks for the store while all the others
\* are waiting for input (or have ended) is granted it at once.
C20_NoLockWhileReading ==
    /\ \A i \in Sessions : pc[i] \in {"read", "closed"} => lock[i] = "none"
    /\ \A i \in Sessions : pc[i] \in {"exec", "ttl", "insert"} <=> lock[i] # "none"
    /\ \A i \in Sessions :
          (pc[i] = "lock" /\ \A j \in Sessions \ {i} : pc[j] \in {"read", "closed"})
              => ENABLED Acquire(i)

\* The first session has been answered a GET and waits for its next line
\* while the second holds the write guard, in the middle of its insert
C20_Witness ==
    /\ pc["c1"] = "read" /\ parts["c1"] = <<GET, k1>> /\ resp["c1"].fmt = "${}\r\n{}"
    /\ lock["c1"] = "none"
    /\ pc["c2"] = "insert" /\ lock["c2"] = "write"

\* A worker leaves the first half of the "SET" arm
SetTried(i) == pc[i] = "exec" /\ command(i) = SET /\ pc'[i] # "exec"

\* C11, as claimed: a SET that names a key and a value, with no ttl or with
\* any ttl token (every one that parses as a u64 included, the largest too),
\* always succeeds: its insert begins and completes, it answers +OK, and the
\* key then holds exactly that value.
C11_SetAlwaysSucceeds ==
    /\ [][\A i \in Sessions :
            (SetTried(i) /\ Len(parts[i]) \in {3, 4}) =>
                pc'[i] = "insert" /\ lock'[i] = "write"]_vars
    /\ [][\A i \in Sessions :
            (InsertStep(i) /\ Len(parts[i]) \in {3, 4}) =>
                /\ resp'[i] = ReplyOk /\ pc'[i] = "read"
                /\ store'[parts[i][2]].value = ValueOf(parts[i])]_vars

\* The ttl tokens that do not parse as a u64: not a number, negative, and
\* one more than u64::MAX
Unparseable == {t_word, t_neg, t_over}

\* C17: a SET with three arguments whose ttl token does not parse as a u64
\* is not rejected: its insert begins and completes, it answers +OK, and the
\* key holds the value argument with no expiry, the store being exactly
\* what the same SET with ttl 0 would have made it.
C17_UnparseableTtl ==
    /\ [][\A i \in Sessions :
            (SetTried(i) /\ Len(parts[i]) = 4 /\ parts[i][3] \in Unparseable) =>
                pc'[i] = "insert"]_vars
    /\ [][\A i \in Sessions :
            (InsertStep(i) /\ Len(parts[i]) = 4 /\ parts[i][3] \in Unparseable) =>
                /\ resp'[i] = ReplyOk /\ pc'[i] = "read"
                /\ store'[parts[i][2]] = [expires_at |-> None, value |-> parts[i][4]]
                /\ store' = unwrap(handle_set(
                                <<SET, parts[i][2], <<"0">>, parts[i][4]>>, store, now))]_vars

\* 'SET k -1 ww' was answered +OK and k1 holds ww with no expiry
C17_Witness ==
    /\ pc["c1"] = "read" /\ parts["c1"] = <<SET, k1, t_neg, v2>>
    /\ resp["c1"] = ReplyOk
    /\ store[k1] = CacheEntry(None, v2)

\* C12, as claimed: the sweeper runs for the lifetime of the process, so an
\* entry that has expired and is still in the map is eventually out of it,
\* whether or not a client touches its key again.
C12_EventuallySwept ==
    \A k \in {k1, k2} :
        (k \in Expired(store, now)) ~> (k \notin Expired(store, now))

\* A step of the sweeper
SweepStep == store' # store /\ \A i \in Sessions : lock[i] = "none"

\* C15: sweeping does not change what GET and TTL answer.  With sweeps
\* interleaved anywhere among the requests and the clock's ticks, every GET
\* and every TTL is answered (or fails) exactly as it would be on the map
\* that the same requests made with no sweep at all.  A sweep removes only
\* entries whose expires_at is set and <= now, and leaves every other entry,
\* with or without expiry, as it was; the swept map is the unswept one less
\* some of its expired entries.
C15_SweepTransparent ==
    /\ [][\A i \in Sessions :
            GetStep(i) =>
                IF is_some(handle_get(parts[i], unswept, now))
                THEN pc'[i] = "read"
                     /\ resp'[i] = unwrap(handle_get(parts[i], unswept, now))
                ELSE pc'[i] = "closed"]_vars
    /\ [][\A i \in Sessions :
            TtlStep(i) =>
                IF is_some(handle_ttl(parts[i], unswept, unwrap(local[i]), now))
                THEN pc'[i] = "read"
                     /\ resp'[i] = unwrap(handle_ttl(parts[i], unswept,
                                                     unwrap(local[i]), now))
                ELSE pc'[i] = "closed"]_vars
    /\ [][SweepStep =>
            /\ DOMAIN store' = DOMAIN store \ Expired(store, now)
            /\ \A k \in DOMAIN store' : store'[k] = store[k]]_vars
    /\ []((\A i \in Sessions : pc[i] # "insert") =>
            /\ DOMAIN store \subseteq DOMAIN unswept
            /\ \A k \in DOMAIN store : store[k] = unswept[k]
            /\ DOMAIN unswept \ DOMAIN store \subseteq Expired(unswept, now))

\* k1's entry has expired and been swept (the unswept map still has it),
\* k2's entry, which has no expiry, is still there, and a GET of k1 was
\* answered $-1 after the sweep
C15_Witness ==
    /\ ~contains_key(store, k1) /\ contains_key(unswept, k1)
    /\ contains_key(store, k2) /\ store[k2] = CacheEntry(None, v1)
    /\ pc["c1"] = "read" /\ parts["c1"] = <<GET, k1>> /\ resp["c1"] = ReplyNil

====
